---- MODULE Spec2Model ----
(***************************************************************************)
(* Model of the genome engine of Clage (src/genome.py): the identity       *)
(* allocator, the node/connection graph, the mutation operators and the    *)
(* crossover operator.                                                     *)
(*                                                                         *)
(* Floats are modelled on an integer grid: one unit is 1.0 for weights     *)
(* and node values.  random() * 4 - 2 ranges over [-2, 2), random() * 2 - 1*)
(* over [-1, 1); gauss(0, 0.1) is unbounded and is drawn from              *)
(* -GaussMax .. GaussMax.                                                  *)
(***************************************************************************)
EXTENDS Integers, Sequences, FiniteSets, TLC

(* ---------------------------- bounds ----------------------------------- *)
MaxNodes == 3      \* nodes per genome
MaxConns == 3      \* connections per genome
MaxCount == 7      \* largest value the allocator hands out
MaxOps   == 7      \* operations per run
MaxSize  == 1      \* largest input_size and output_size given to Model
GaussMax == 2      \* largest magnitude drawn for gauss(0, 0.1)
MaxValue == 1      \* largest magnitude of a stored node value
MaxActNodes == 3   \* nodes of a genome handed to activate
MaxActConns == 1   \* connections of a genome handed to activate
MaxInLen    == 2   \* longest input vector handed to activate
MaxActs     == 3   \* calls made on one genome

(* ------------------------ program constants ---------------------------- *)
NodeDefaultIdx == 1     \* Node.__init__: idx = counter() evaluated once, at definition
ConnDefaultIdx == 2     \* Connection.__init__: idx = counter() evaluated once, at definition
ImportCount    == 2     \* counter.count once the module is loaded
LowW           == -2    \* max(-2, min(2, w))
HighW          == 2
NumPasses      == 3     \* for _ in range(3)

(* the two genome references held by the driver; a crossover or a Model    *)
(* stores its result in either of them                                     *)
Slots     == {"A", "B"}
NoGenome  == [nodes |-> <<>>, connections |-> <<>>, fitness |-> -1]
NoCross   == [a |-> NoGenome, b |-> NoGenome, dst |-> "none"]

VARIABLES
    count,      \* counter.count
    pool,       \* the genomes alive, by slot (NoGenome: slot not in use)
    cross,      \* the last step, when it was a crossover: its parents and its target
    calls,      \* the values counter() returned during the last step, in order
    lastRet,    \* the value counter() returned last, over the whole process
    ops,        \* number of operations performed
    skipped,    \* the slot whose link, node or toggle mutation just returned
                \* without a change, or "none"
    shared,     \* the Connection objects two genomes both hold: [s, i, t, j]
                \* when connection i of pool[s] is connection j of pool[t]
    net,        \* the genome whose methods are called (activation runs)
    result,     \* the last call on net: its inputs and what it returned or raised
    first,      \* the first call of activate on net
    acts        \* number of calls made on net

mainVars == <<count, pool, cross, calls, lastRet, ops, skipped, shared>>
actVars  == <<net, result, first, acts>>
vars     == <<count, pool, cross, calls, lastRet, ops, skipped, shared,
             net, result, first, acts>>

(* no call was made yet *)
NoResult == [op |-> "none", status |-> "ok", inputs |-> <<>>, value |-> <<>>]

(* ------------------------------ helpers -------------------------------- *)
Range(s) == {s[i] : i \in DOMAIN s}

Last(s) == s[Len(s)]

Max(a, b) == IF a > b THEN a ELSE b
Min(a, b) == IF a < b THEN a ELSE b

(* Counter.__call__ without the increment *)
CounterCallStuck(c) == c

(* Counter.__call__: the new count, which is also the value returned *)
CounterCall(c) == c + 1

(* Counter.reset *)
CounterReset == 0

(* Node(ntype, idx): value starts at 0.0 *)
Node(ntype, idx) == [idx |-> idx, ntype |-> ntype, value |-> 0]

(* Connection(in_node, out_node, weight, idx, enabled) *)
Connection(in_node, out_node, weight, idx, enabled) ==
    [idx |-> idx, in_node |-> in_node, out_node |-> out_node,
     weight |-> weight, enabled |-> enabled]

(* Genome(nodes, connections): fitness starts at 0.0 *)
Genome(nodes, connections) ==
    [nodes |-> nodes, connections |-> connections, fitness |-> 0]

NodeIds(g) == {g.nodes[i].idx : i \in DOMAIN g.nodes}
ConnIds(g) == {g.connections[i].idx : i \in DOMAIN g.connections}

(* the perturbed weight left as it is *)
ClampMissing(w) == w

(* max(-2, min(2, w)) *)
Clamp(w) == Max(LowW, Min(HighW, w))

(* random() * 4 - 2 : a value of [-2, 2) *)
FreshWeights == LowW .. (HighW - 1)

(* random() * 2 - 1 : a value of [-1, 1) *)
LinkWeights == -1 .. 0

(* gauss(0, 0.1) *)
Gauss == (-GaussMax) .. GaussMax

(* mutate_link without the test for an existing (in_node, out_node) pair *)
LinkOutcomesUnchecked(g) ==
    LET available_nodes == [i \in DOMAIN g.nodes |-> g.nodes[i].idx]
    IN  IF Len(available_nodes) < 2
        THEN {g}
        ELSE UNION {
               LET possible_nodes == {n \in Range(available_nodes) : n # in_node}
               IN  IF possible_nodes = {}
                   THEN {g}
                   ELSE { [g EXCEPT !.connections =
                             Append(@, Connection(in_node, out_node, w,
                                                  ConnDefaultIdx, TRUE))]
                          : out_node \in possible_nodes, w \in LinkWeights }
               : in_node \in Range(available_nodes) }

(* ---------------------------- mutate_link ------------------------------ *)
(* The genomes mutate_link can leave behind: g itself on every early       *)
(* return, or g with one more connection.                                  *)
LinkOutcomes(g) ==
    LET available_nodes == [i \in DOMAIN g.nodes |-> g.nodes[i].idx]
    IN  IF Len(available_nodes) < 2
        THEN {g}
        ELSE UNION {
               LET possible_nodes == {n \in Range(available_nodes) : n # in_node}
               IN  IF possible_nodes = {}
                   THEN {g}
                   ELSE UNION {
                          IF \E i \in DOMAIN g.connections :
                                /\ g.connections[i].in_node = in_node
                                /\ g.connections[i].out_node = out_node
                          THEN {g}
                          ELSE { [g EXCEPT !.connections =
                                    Append(@, Connection(in_node, out_node, w,
                                                         ConnDefaultIdx, TRUE))]
                                 : w \in LinkWeights }
                          : out_node \in possible_nodes }
               : in_node \in Range(available_nodes) }

(* n successive calls of mutate_link *)
RECURSIVE LinkTimes(_, _)
LinkTimes(G, n) ==
    IF n = 0 THEN G ELSE LinkTimes(UNION {LinkOutcomes(g) : g \in G}, n - 1)

(* Model.__init__ handing only the input nodes to the Genome *)
ModelGenomesInputsOnly(input_size, output_size) ==
    LET input_nodes == [i \in 1 .. input_size |-> Node("Input", NodeDefaultIdx)]
    IN  LinkTimes({Genome(input_nodes, <<>>)}, input_size * output_size)

(* ------------------------------- Model --------------------------------- *)
ModelGenomes(input_size, output_size) ==
    LET input_nodes  == [i \in 1 .. input_size  |-> Node("Input", NodeDefaultIdx)]
        output_nodes == [i \in 1 .. output_size |-> Node("Output", NodeDefaultIdx)]
    IN  LinkTimes({Genome(input_nodes \o output_nodes, <<>>)},
                  input_size * output_size)

(* ------------------------------ crossover ------------------------------ *)
(* node.copy() handing back the node itself *)
NodeCopySame(node) == [node |-> node, same |-> TRUE]

(* node.copy(): a new Node object with the kind, id and value of node; same *)
(* tells whether the result is the object it was called on                 *)
NodeCopy(node) ==
    [node |-> [Node(node.ntype, node.idx) EXCEPT !.value = node.value],
     same |-> FALSE]

(* The loop over the nodes of one parent: st carries child_nodes,          *)
(* node_map, the counter, the values it returned, and parent, the nodes of *)
(* the parent passed so far as the loop leaves them: new_node.idx =        *)
(* counter() writes to the object node.copy() returned.                    *)
RECURSIVE NodeFold(_, _, _)
NodeFold(ns, i, st) ==
    IF i > Len(ns) THEN st
    ELSE IF ns[i].idx \in DOMAIN st.node_map
         THEN NodeFold(ns, i + 1, [st EXCEPT !.parent = Append(@, ns[i])])
         ELSE LET c        == CounterCall(st.count)
                  new_node == NodeCopy(ns[i])
              IN  NodeFold(ns, i + 1,
                    [child_nodes |-> Append(st.child_nodes,
                                            [new_node.node EXCEPT !.idx = c]),
                     node_map    |-> st.node_map @@ (ns[i].idx :> c),
                     count       |-> c,
                     calls       |-> Append(st.calls, c),
                     parent      |-> Append(st.parent,
                                            IF new_node.same
                                            THEN [ns[i] EXCEPT !.idx = c]
                                            ELSE ns[i])])

(* the two loops; self_nodes and partner_nodes are the node lists of the   *)
(* parents after them                                                      *)
CrossNodes(a, b, c) ==
    LET st1 == NodeFold(a.nodes, 1,
                 [child_nodes |-> <<>>, node_map |-> << >>, count |-> c,
                  calls |-> <<>>, parent |-> <<>>])
        st2 == NodeFold(b.nodes, 1, [st1 EXCEPT !.parent = <<>>])
    IN  [child_nodes   |-> st2.child_nodes,
         node_map      |-> st2.node_map,
         count         |-> st2.count,
         calls         |-> st2.calls,
         self_nodes    |-> st1.parent,
         partner_nodes |-> st2.parent]

(* one key for every parent connection, as a list would keep them *)
DistinctIdsRepeated(cs, i, acc) == [j \in DOMAIN cs |-> cs[j].idx]

(* keys of conn_innovation, in insertion order *)
RECURSIVE DistinctIds(_, _, _)
DistinctIds(cs, i, acc) ==
    IF i > Len(cs) THEN acc
    ELSE IF cs[i].idx \in Range(acc)
         THEN DistinctIds(cs, i + 1, acc)
         ELSE DistinctIds(cs, i + 1, Append(acc, cs[i].idx))

(* next(c for c in conns if c.idx == k) *)
FirstWithId(cs, k) ==
    cs[CHOOSE i \in DOMAIN cs :
         /\ cs[i].idx = k
         /\ \A j \in 1 .. (i - 1) : cs[j].idx # k]

(* the parent connections the gene k may be inherited from *)
GeneChoices(a, b, k) ==
    IF k \in ConnIds(a) /\ k \in ConnIds(b)
    THEN {c \in Range(a.connections) \cup Range(b.connections) : c.idx = k}
    ELSE IF k \in ConnIds(a)
         THEN {FirstWithId(a.connections, k)}
         ELSE {FirstWithId(b.connections, k)}

(* the child connection with the endpoints of the parent left as they are *)
ChildConnUnmapped(node_map, parent_conn) ==
    Connection(parent_conn.in_node, parent_conn.out_node,
               parent_conn.weight, parent_conn.idx, parent_conn.enabled)

(* the connection of the child made from parent_conn *)
ChildConn(node_map, parent_conn) ==
    Connection(node_map[parent_conn.in_node], node_map[parent_conn.out_node],
               parent_conn.weight, parent_conn.idx, parent_conn.enabled)

(* the connection appended to child_conns being parent_conn itself *)
ConnSameAlways(parent_conn) == TRUE

(* whether the connection appended to child_conns is the object            *)
(* parent_conn: new_conn = Connection(...) builds a new object             *)
ConnSame(parent_conn) == FALSE

(* every result a.crossover(b) can have with the counter at c *)
CrossoverOutcomes(a, b, c) ==
    LET st   == CrossNodes(a, b, c)
        keys == DistinctIds(a.connections \o b.connections, 1, <<>>)
        sels == {sel \in [DOMAIN keys -> Range(a.connections) \cup Range(b.connections)] :
                   \A i \in DOMAIN keys : sel[i] \in GeneChoices(a, b, keys[i])}
    IN  { [genome |-> Genome(st.child_nodes,
                             [i \in DOMAIN keys |-> ChildConn(st.node_map, sel[i])]),
           count  |-> st.count,
           calls  |-> st.calls,
           from   |-> [i \in DOMAIN keys |-> sel[i]],
           self_nodes    |-> st.self_nodes,
           partner_nodes |-> st.partner_nodes] : sel \in sels }

(* --------------------------- specification ----------------------------- *)
Init ==
    /\ count = ImportCount
    /\ pool = [s \in Slots |-> NoGenome]
    /\ cross = NoCross
    /\ calls = <<NodeDefaultIdx, ConnDefaultIdx>>
    /\ lastRet = ConnDefaultIdx
    /\ ops = 0
    /\ skipped = "none"
    /\ shared = {}
    /\ net = NoGenome
    /\ result = NoResult
    /\ first = NoResult
    /\ acts = 0

Live(s) == pool[s] # NoGenome

(* one more operation of the run *)
Step ==
    /\ ops < MaxOps
    /\ ops' = ops + 1
    /\ UNCHANGED actVars

(* a step that is no crossover and does not call counter() *)
NoCalls == cross' = NoCross /\ calls' = <<>> /\ lastRet' = lastRet

(* the shared objects left when slot s is bound to another genome *)
Unbind(s) == {e \in shared : e.s # s /\ e.t # s}

(* the pool p after a write to the weight or the enabled flag of           *)
(* connections of p[s]: a Connection object two genomes hold changes in    *)
(* both                                                                    *)
WriteThrough(p, s) ==
    [t \in Slots |->
        IF t = s THEN p[s]
        ELSE LET cs     == p[t].connections
                 src(j) == {i \in DOMAIN p[s].connections :
                              \/ [s |-> s, i |-> i, t |-> t, j |-> j] \in shared
                              \/ [s |-> t, i |-> j, t |-> s, j |-> i] \in shared}
                 at(j)  == p[s].connections[CHOOSE i \in src(j) : TRUE]
             IN  [p[t] EXCEPT !.connections =
                    [j \in DOMAIN cs |->
                        IF src(j) = {} THEN cs[j]
                        ELSE [cs[j] EXCEPT !.weight = at(j).weight,
                                           !.enabled = at(j).enabled]]]]

(* model = Model(input_size, output_size); the genome goes to slot s *)
Bootstrap(s, input_size, output_size) ==
    /\ Step
    /\ input_size + output_size <= MaxNodes
    /\ \E g \in ModelGenomes(input_size, output_size) :
          pool' = [pool EXCEPT ![s] = g]
    /\ count' = CounterReset
    /\ NoCalls
    /\ skipped' = "none"
    /\ shared' = Unbind(s)

(* pool[s].mutate_link() *)
MutateLink(s) ==
    /\ Step
    /\ Live(s)
    /\ \E g \in LinkOutcomes(pool[s]) :
          /\ Len(g.connections) <= MaxConns
          /\ pool' = [pool EXCEPT ![s] = g]
          /\ skipped' = IF g = pool[s] THEN s ELSE "none"
    /\ UNCHANGED <<count, shared>>
    /\ NoCalls

(* ---------------------------- mutate_weight ---------------------------- *)
(* what one connection's weight can be after the loop body of              *)
(* mutate_weight: untouched, a fresh value, or a clamped perturbation      *)
WeightOutcomes(w) ==
    {w} \cup FreshWeights \cup {Clamp(w + d) : d \in Gauss}

(* pool[s].mutate_weight(prob) *)
MutateWeight(s) ==
    /\ Step
    /\ Live(s)
    /\ \E nw \in [DOMAIN pool[s].connections ->
                    UNION {WeightOutcomes(c.weight) : c \in Range(pool[s].connections)}] :
          /\ \A i \in DOMAIN nw : nw[i] \in WeightOutcomes(pool[s].connections[i].weight)
          /\ pool' = WriteThrough([pool EXCEPT ![s].connections =
                        [i \in DOMAIN @ |-> [@[i] EXCEPT !.weight = nw[i]]]], s)
    /\ UNCHANGED <<count, shared>>
    /\ NoCalls
    /\ skipped' = "none"

(* mutate_node with the weights of the two new connections exchanged *)
SplitAtSwapped(g, k) ==
    LET conn     == g.connections[k]
        new_node == Node("Hidden", NodeDefaultIdx)
        conn1    == Connection(conn.in_node, new_node.idx, conn.weight,
                               ConnDefaultIdx, TRUE)
        conn2    == Connection(new_node.idx, conn.out_node, 1, ConnDefaultIdx, TRUE)
    IN  IF ~conn.enabled
        THEN g
        ELSE [g EXCEPT !.nodes = Append(@, new_node),
                       !.connections =
                          [@ EXCEPT ![k].enabled = FALSE] \o <<conn1, conn2>>]

(* mutate_node replacing the split connection by the two new ones *)
SplitAtReplacing(g, k) ==
    LET conn     == g.connections[k]
        new_node == Node("Hidden", NodeDefaultIdx)
        conn1    == Connection(conn.in_node, new_node.idx, 1, ConnDefaultIdx, TRUE)
        conn2    == Connection(new_node.idx, conn.out_node, conn.weight,
                               ConnDefaultIdx, TRUE)
    IN  IF ~conn.enabled
        THEN g
        ELSE [g EXCEPT !.nodes = Append(@, new_node),
                       !.connections =
                          SubSeq(@, 1, k - 1) \o SubSeq(@, k + 1, Len(@))
                             \o <<conn1, conn2>>]

(* ----------------------------- mutate_node ----------------------------- *)
(* the genome after mutate_node picked the connection at index k *)
SplitAt(g, k) ==
    LET conn     == g.connections[k]
        new_node == Node("Hidden", NodeDefaultIdx)
        conn1    == Connection(conn.in_node, new_node.idx, 1, ConnDefaultIdx, TRUE)
        conn2    == Connection(new_node.idx, conn.out_node, conn.weight,
                               ConnDefaultIdx, TRUE)
    IN  IF ~conn.enabled
        THEN g
        ELSE [g EXCEPT !.nodes = Append(@, new_node),
                       !.connections =
                          [@ EXCEPT ![k].enabled = FALSE] \o <<conn1, conn2>>]

(* mutate_node adding its Hidden node also when there is no connection *)
NodeOutcomesAlwaysAdds(g) ==
    IF g.connections = <<>>
    THEN {[g EXCEPT !.nodes = Append(@, Node("Hidden", NodeDefaultIdx))]}
    ELSE {SplitAt(g, k) : k \in DOMAIN g.connections}

NodeOutcomes(g) ==
    IF g.connections = <<>> THEN {g}
    ELSE {SplitAt(g, k) : k \in DOMAIN g.connections}

(* pool[s].mutate_node() *)
MutateNode(s) ==
    /\ Step
    /\ Live(s)
    /\ \E g \in NodeOutcomes(pool[s]) :
          /\ Len(g.nodes) <= MaxNodes
          /\ Len(g.connections) <= MaxConns
          /\ pool' = WriteThrough([pool EXCEPT ![s] = g], s)
          /\ skipped' = IF g = pool[s] THEN s ELSE "none"
    /\ UNCHANGED <<count, shared>>
    /\ NoCalls

(* ---------------------------- mutate_toggle ---------------------------- *)
ToggleOutcomes(g) ==
    IF g.connections = <<>> THEN {g}
    ELSE {[g EXCEPT !.connections[k].enabled = ~@] : k \in DOMAIN g.connections}

(* pool[s].mutate_toggle() *)
MutateToggle(s) ==
    /\ Step
    /\ Live(s)
    /\ \E g \in ToggleOutcomes(pool[s]) :
          pool' = WriteThrough([pool EXCEPT ![s] = g], s)
    /\ UNCHANGED <<count, shared>>
    /\ NoCalls
    /\ skipped' = IF pool[s].connections = <<>> THEN s ELSE "none"

(* ----------------------------- mutate_bias ----------------------------- *)
BiasOutcomes(g) ==
    LET output_nodes == {i \in DOMAIN g.nodes : g.nodes[i].ntype = "Output"}
    IN  {g} \cup {[g EXCEPT !.nodes[i].value = @ + d] :
                    i \in output_nodes, d \in Gauss}

(* pool[s].mutate_bias() *)
MutateBias(s) ==
    /\ Step
    /\ Live(s)
    /\ \E g \in BiasOutcomes(pool[s]) :
          /\ \A i \in DOMAIN g.nodes :
                g.nodes[i].value \in (-MaxValue) .. MaxValue
          /\ pool' = [pool EXCEPT ![s] = g]
    /\ UNCHANGED <<count, shared>>
    /\ NoCalls
    /\ skipped' = "none"

(* pool[dst] = pool[a].crossover(pool[b]) *)
Crossover(a, b, dst) ==
    /\ Step
    /\ Live(a) /\ Live(b)
    /\ \E r \in CrossoverOutcomes(pool[a], pool[b], count) :
          /\ r.count <= MaxCount
          /\ Len(r.genome.nodes) <= MaxNodes
          /\ pool' = [[pool EXCEPT ![a].nodes = r.self_nodes,
                                    ![b].nodes = r.partner_nodes]
                         EXCEPT ![dst] = r.genome]
          /\ count' = r.count
          /\ calls' = r.calls
          /\ lastRet' = IF r.calls = <<>> THEN lastRet ELSE Last(r.calls)
          /\ shared' = Unbind(dst) \cup
                {e \in [s : {dst}, i : DOMAIN r.from,
                        t : {a, b} \ {dst}, j : 1 .. MaxConns] :
                    /\ ConnSame(r.from[e.i])
                    /\ e.j \in DOMAIN pool[e.t].connections
                    /\ pool[e.t].connections[e.j] = r.from[e.i]}
    /\ cross' = [a |-> pool[a], b |-> pool[b], dst |-> dst]
    /\ skipped' = "none"

Next ==
    \/ \E s \in Slots, i, o \in 1 .. MaxSize : Bootstrap(s, i, o)
    \/ \E s \in Slots : MutateLink(s)
    \/ \E s \in Slots : MutateWeight(s)
    \/ \E s \in Slots : MutateNode(s)
    \/ \E s \in Slots : MutateToggle(s)
    \/ \E s \in Slots : MutateBias(s)
    \/ \E a, b, dst \in Slots : Crossover(a, b, dst)

Spec == Init /\ [][Next]_vars

(* ------------------------------ activate ------------------------------- *)
(* math.tanh on the grid: the grid value nearest to tanh(x) *)
Tanh(x) == IF x > 0 THEN 1 ELSE IF x < 0 THEN -1 ELSE 0

(* Node.activate *)
NodeActivate(n) == [n EXCEPT !.value = Tanh(@)]

(* connection without the test of its enabled flag *)
ForwardIgnoringEnabled(conn, input_value) == input_value * conn.weight

(* Connection.forward *)
Forward(conn, input_value) ==
    IF conn.enabled THEN input_value * conn.weight ELSE 0

(* the positions of the nodes of kind t in the order of the list *)
ListedPositions(nodes, t, i, acc) ==
    LET RECURSIVE Listed(_, _)
        Listed(j, out) ==
            IF j > Len(nodes) THEN out
            ELSE Listed(j + 1, IF nodes[j].ntype = t THEN Append(out, j) ELSE out)
    IN  Listed(1, <<>>)

(* sorted([n for n in self.nodes if n.ntype == t], key=lambda x: x.idx):   *)
(* the positions of the nodes of kind t, by ascending idx; the sort is     *)
(* stable, equal ids stay in list order                                    *)
RECURSIVE SortedPositions(_, _, _, _)
SortedPositions(nodes, t, i, acc) ==
    IF i > Len(nodes) THEN acc
    ELSE IF nodes[i].ntype # t
         THEN SortedPositions(nodes, t, i + 1, acc)
         ELSE LET k == Cardinality({j \in DOMAIN acc :
                                      nodes[acc[j]].idx <= nodes[i].idx})
              IN  SortedPositions(nodes, t, i + 1,
                     SubSeq(acc, 1, k) \o <<i>> \o SubSeq(acc, k + 1, Len(acc)))

(* the first loop of activate resetting the Hidden nodes only *)
ResetValuesHiddenOnly(nodes) ==
    [i \in DOMAIN nodes |->
        IF nodes[i].ntype = "Hidden" THEN [nodes[i] EXCEPT !.value = 0] ELSE nodes[i]]

(* the first loop of activate: every node that is no Input goes to 0.0 *)
ResetValues(nodes) ==
    [i \in DOMAIN nodes |->
        IF nodes[i].ntype # "Input" THEN [nodes[i] EXCEPT !.value = 0] ELSE nodes[i]]

(* for i, node in enumerate(input_nodes[:len(inputs)]): node.value = inputs[i] *)
SetInputs(nodes, inputs) ==
    LET input_nodes == SortedPositions(nodes, "Input", 1, <<>>)
        n           == Min(Len(inputs), Len(input_nodes))
    IN  [p \in DOMAIN nodes |->
           IF \E i \in 1 .. n : input_nodes[i] = p
           THEN [nodes[p] EXCEPT !.value = inputs[CHOOSE i \in 1 .. n : input_nodes[i] = p]]
           ELSE nodes[p]]

(* next(...) finds a node of that id *)
HasNode(nodes, id) == \E p \in DOMAIN nodes : nodes[p].idx = id

(* next(n for n in self.nodes if n.idx == id): the position of the node *)
NodeAt(nodes, id) ==
    CHOOSE p \in DOMAIN nodes :
        /\ nodes[p].idx = id
        /\ \A q \in 1 .. (p - 1) : nodes[q].idx # id

(* the connection loop looking up the nodes of enabled connections only *)
RECURSIVE PropagateEnabledOnly(_, _, _)
PropagateEnabledOnly(nodes, conns, j) ==
    IF j > Len(conns) THEN [nodes |-> nodes, raised |-> FALSE]
    ELSE IF ~conns[j].enabled
         THEN PropagateEnabledOnly(nodes, conns, j + 1)
         ELSE IF ~(HasNode(nodes, conns[j].in_node) /\ HasNode(nodes, conns[j].out_node))
              THEN [nodes |-> nodes, raised |-> TRUE]
              ELSE LET in_node  == NodeAt(nodes, conns[j].in_node)
                       out_node == NodeAt(nodes, conns[j].out_node)
                   IN  PropagateEnabledOnly(
                          [nodes EXCEPT ![out_node].value =
                              @ + conns[j].weight * nodes[in_node].value],
                          conns, j + 1)

(* the loop over the connections of one pass, from connection j on: the    *)
(* node values afterwards, or those at the connection where next(...)      *)
(* found no node and raised StopIteration                                  *)
RECURSIVE Propagate(_, _, _)
Propagate(nodes, conns, j) ==
    IF j > Len(conns) THEN [nodes |-> nodes, raised |-> FALSE]
    ELSE IF ~(HasNode(nodes, conns[j].in_node) /\ HasNode(nodes, conns[j].out_node))
         THEN [nodes |-> nodes, raised |-> TRUE]
         ELSE LET in_node  == NodeAt(nodes, conns[j].in_node)
                  out_node == NodeAt(nodes, conns[j].out_node)
              IN  Propagate([nodes EXCEPT ![out_node].value =
                                @ + Forward(conns[j], nodes[in_node].value)],
                            conns, j + 1)

(* the second loop of one pass *)
ActivateNodes(nodes) ==
    [i \in DOMAIN nodes |->
        IF nodes[i].ntype # "Input" THEN NodeActivate(nodes[i]) ELSE nodes[i]]

(* n propagation passes, ended by the first that raises *)
RECURSIVE Passes(_, _, _)
Passes(nodes, conns, n) ==
    IF n = 0 THEN [nodes |-> nodes, raised |-> FALSE]
    ELSE LET r == Propagate(nodes, conns, 1)
         IN  IF r.raised THEN r
             ELSE Passes(ActivateNodes(r.nodes), conns, n - 1)

(* [n.value for n in output_nodes] *)
OutputValues(nodes) ==
    LET output_nodes == SortedPositions(nodes, "Output", 1, <<>>)
    IN  [k \in DOMAIN output_nodes |-> nodes[output_nodes[k]].value]

(* g.activate(inputs): the genome afterwards, and the vector returned or   *)
(* the exception raised                                                    *)
ActivateRun(g, inputs) ==
    LET r == Passes(SetInputs(ResetValues(g.nodes), inputs),
                    g.connections, NumPasses)
    IN  [genome |-> [g EXCEPT !.nodes = r.nodes],
         status |-> IF r.raised THEN "StopIteration" ELSE "ok",
         value  |-> IF r.raised THEN <<>> ELSE OutputValues(r.nodes)]

(* the methods class Genome defines *)
GenomeMethods ==
    {"activate", "mutate", "mutate_weight", "mutate_link", "mutate_node",
     "mutate_toggle", "mutate_bias", "crossover"}

(* --------------------- genomes handed to activate ---------------------- *)
Injective(f) == \A i, j \in DOMAIN f : f[i] = f[j] => i = j

(* node lists of n nodes, any kinds, values 0.0: the ids 1 .. n in any     *)
(* order, or the default id on every node as in the genomes of Model       *)
NodeLists(n) ==
    {[i \in 1 .. n |-> Node(ty[i], id[i])] :
        id \in {f \in [1 .. n -> 1 .. n] : Injective(f)}
                  \cup {[i \in 1 .. n |-> NodeDefaultIdx]},
        ty \in [1 .. n -> {"Input", "Output", "Hidden"}]}

(* an id no node of a genome handed to activate has *)
MissingId == MaxActNodes + 1

(* the connections between two different ids, those of the nodes and one   *)
(* that no node has                                                        *)
ConnsOver(ids) ==
    {Connection(i, o, w, ConnDefaultIdx, e) :
        i \in ids \cup {MissingId}, o \in ids \cup {MissingId},
        w \in {-1, 1}, e \in BOOLEAN}

ConnLists(ids) ==
    UNION {[1 .. m -> {c \in ConnsOver(ids) : c.in_node # c.out_node}]
             : m \in 0 .. MaxActConns}

(* g is Genome(nodes, connections) for a node list and a connection list   *)
(* over its ids and the missing one                                        *)
IsActGenome(g) ==
    \E n \in 1 .. MaxActNodes :
        \E ns \in NodeLists(n) :
            \E cs \in ConnLists({x.idx : x \in Range(ns)}) :
                g = Genome(ns, cs)

(* the input vectors of length m: the first m readings, of alternating sign *)
ActInputs(m) == {[i \in 1 .. m |-> IF i % 2 = 1 THEN 1 ELSE -1]}

(* ------------------- specification of the calls on net ------------------ *)
InitAct ==
    /\ count = ImportCount
    /\ pool = [s \in Slots |-> NoGenome]
    /\ cross = NoCross
    /\ calls = <<NodeDefaultIdx, ConnDefaultIdx>>
    /\ lastRet = ConnDefaultIdx
    /\ ops = 0
    /\ skipped = "none"
    /\ shared = {}
    /\ IsActGenome(net)
    /\ result = NoResult
    /\ first = NoResult
    /\ acts = 0

(* one more call on net *)
Call ==
    /\ acts < MaxActs
    /\ acts' = acts + 1
    /\ UNCHANGED mainVars

(* net.activate(inputs) *)
Activate(inputs) ==
    /\ Call
    /\ LET r == ActivateRun(net, inputs)
           c == [op |-> "activate", status |-> r.status,
                 inputs |-> inputs, value |-> r.value]
       IN  /\ net' = r.genome
           /\ result' = c
           /\ first' = IF first = NoResult THEN c ELSE first

(* net.copy(), as Organism.__init__ and Organism.reproduce call it: the    *)
(* attribute lookup fails when the class has no such method                *)
Copy ==
    /\ Call
    /\ result' = IF "copy" \in GenomeMethods
                 THEN [op |-> "copy", status |-> "ok", inputs |-> <<>>,
                       value |-> <<net>>]
                 ELSE [op |-> "copy", status |-> "AttributeError",
                       inputs |-> <<>>, value |-> <<>>]
    /\ UNCHANGED <<net, first>>

(* net.mutate_bias() *)
BiasNet ==
    /\ Call
    /\ \E g \in BiasOutcomes(net) :
          /\ \A i \in DOMAIN g.nodes :
                g.nodes[i].ntype = "Output" => g.nodes[i].value \in (-MaxValue) .. MaxValue
          /\ net' = g
    /\ result' = [op |-> "mutate_bias", status |-> "ok", inputs |-> <<>>, value |-> <<>>]
    /\ UNCHANGED first

NextAct ==
    \/ \E m \in 0 .. MaxInLen : \E inputs \in ActInputs(m) : Activate(inputs)
    \/ Copy
    \/ BiasNet

SpecAct == InitAct /\ [][NextAct]_vars

(* ------------------------------ properties ----------------------------- *)
LiveGenomes == {pool[s] : s \in {t \in Slots : Live(t)}}

(* the genome the last crossover returned *)
Child == pool[cross.dst]

(* C1: no two nodes of a genome have the same id *)
C1_UniqueNodeIds ==
    \A g \in LiveGenomes : \A i, j \in DOMAIN g.nodes :
        i # j => g.nodes[i].idx # g.nodes[j].idx

(* C2: no two connections of a genome have the same id *)
C2_UniqueConnIds ==
    \A g \in LiveGenomes : \A i, j \in DOMAIN g.connections :
        i # j => g.connections[i].idx # g.connections[j].idx

(* C3: the source and the target of every connection, enabled or not, are  *)
(* ids of nodes of the same genome                                         *)
C3_NoDanglingReference ==
    \A g \in LiveGenomes : \A i \in DOMAIN g.connections :
        /\ g.connections[i].in_node \in NodeIds(g)
        /\ g.connections[i].out_node \in NodeIds(g)

(* a crossover of a parent that mutate_node has split has just remapped a  *)
(* connection onto the node ids the crossover allocated                    *)
C3_Witness ==
    /\ cross # NoCross
    /\ Len(cross.a.connections) = 3
    /\ \E i \in DOMAIN cross.a.nodes : cross.a.nodes[i].ntype = "Hidden"
    /\ \E i \in DOMAIN Child.connections :
          {Child.connections[i].in_node, Child.connections[i].out_node}
              \subseteq Range(calls)

(* C4 as claimed: every value counter() returns is greater than every      *)
(* value it returned before, over the whole process                        *)
C4_NeverReused ==
    [][\A i \in DOMAIN calls' :
          calls'[i] > (IF i = 1 THEN lastRet ELSE calls'[i - 1])]_vars

(* C4 as amended: every value counter() returns is greater than the value  *)
(* returned before it since the last reset (counter.count, 0 right after a *)
(* reset), and count ends at the last value returned                       *)
C4_IncreasingSinceReset ==
    [][\A i \in DOMAIN calls' :
          /\ calls'[i] > (IF i = 1 THEN count ELSE calls'[i - 1])
          /\ count' = calls'[Len(calls')]]_vars

(* a crossover after a reset has handed out values again *)
C4_Witness ==
    /\ cross # NoCross
    /\ Len(calls) >= 2
    /\ calls[1] <= ImportCount

(* C5: no node id of a genome is the id of a connection of that genome *)
C5_NodeAndConnIdsDisjoint ==
    \A g \in LiveGenomes : NodeIds(g) \cap ConnIds(g) = {}

(* C6: after a crossover of two parents that both hold gene id k, the      *)
(* child holds exactly one connection with id k, whose weight and enabled  *)
(* flag are those of one k-connection of a parent                          *)
C6_MatchingGeneOnce ==
    cross # NoCross =>
        \A k \in ConnIds(cross.a) \cap ConnIds(cross.b) :
            /\ Cardinality({i \in DOMAIN Child.connections :
                              Child.connections[i].idx = k}) = 1
            /\ \A i \in DOMAIN Child.connections :
                  Child.connections[i].idx = k =>
                     \E c \in Range(cross.a.connections) \cup Range(cross.b.connections) :
                        /\ c.idx = k
                        /\ c.weight = Child.connections[i].weight
                        /\ c.enabled = Child.connections[i].enabled

(* a crossover of two parents that hold the gene with different weights *)
C6_Witness ==
    /\ cross # NoCross
    /\ \E ca \in Range(cross.a.connections), cb \in Range(cross.b.connections) :
          /\ ca.idx = cb.idx
          /\ ca.weight # cb.weight
          /\ \E i \in DOMAIN Child.connections :
                /\ Child.connections[i].idx = ca.idx
                /\ Child.connections[i].weight = cb.weight

(* C7: no node id of the child of a crossover is a node id of a parent *)
C7_ChildNodeIdsFresh ==
    cross # NoCross =>
        NodeIds(Child) \cap (NodeIds(cross.a) \cup NodeIds(cross.b)) = {}

(* the child id a parent node id is mapped to: the id of the child node at *)
(* the rank the parent id has among the distinct ids of A's, then B's nodes*)
MappedId(x) ==
    LET order == DistinctIds(cross.a.nodes \o cross.b.nodes, 1, <<>>)
    IN  Child.nodes[CHOOSE r \in DOMAIN order : order[r] = x].idx

(* C8: the connection ids of the child are those of the two parents, and   *)
(* every connection whose id only one parent holds is in the child with    *)
(* its id, weight and enabled flag and with its endpoints mapped           *)
C8_InheritsEveryGene ==
    cross # NoCross =>
        /\ ConnIds(Child) = ConnIds(cross.a) \cup ConnIds(cross.b)
        /\ \A pq \in {<<cross.a, cross.b>>, <<cross.b, cross.a>>} :
              \A c \in Range(pq[1].connections) :
                 c.idx \notin ConnIds(pq[2]) =>
                    \E i \in DOMAIN Child.connections :
                       Child.connections[i] =
                          Connection(MappedId(c.in_node), MappedId(c.out_node),
                                     c.weight, c.idx, c.enabled)

(* C9: every connection weight lies in [-2, 2] *)
C9_WeightClamp ==
    \A g \in LiveGenomes : \A i \in DOMAIN g.connections :
        g.connections[i].weight >= -2 /\ g.connections[i].weight <= 2

(* a perturbed weight sits on the upper end of the range, which neither a  *)
(* fresh weight nor a link or split weight reaches                         *)
C9_Witness ==
    \E g \in LiveGenomes : \E i \in DOMAIN g.connections :
        g.connections[i].weight = 2

(* C10: a call of mutate_link leaves the genome alone or appends one       *)
(* connection, between two distinct node ids of the genome, whose          *)
(* (source, target) pair no connection of the genome had                   *)
C10_LinkNeverDuplicates ==
    [][\A s \in Slots : MutateLink(s) =>
          LET g == pool[s]
              h == pool'[s]
          IN  \/ h = g
              \/ /\ h.nodes = g.nodes
                 /\ Len(h.connections) = Len(g.connections) + 1
                 /\ SubSeq(h.connections, 1, Len(g.connections)) = g.connections
                 /\ LET n == h.connections[Len(h.connections)]
                    IN  /\ n.in_node # n.out_node
                        /\ n.in_node \in NodeIds(g)
                        /\ n.out_node \in NodeIds(g)
                        /\ \A i \in DOMAIN g.connections :
                              ~ /\ g.connections[i].in_node = n.in_node
                                /\ g.connections[i].out_node = n.out_node]_vars

(* mutate_link has added a second connection to a genome whose first       *)
(* connection joins the same two nodes the other way round                 *)
C10_Witness ==
    \E g \in LiveGenomes :
        /\ Len(g.connections) = 2
        /\ \A i \in DOMAIN g.nodes : g.nodes[i].ntype # "Hidden"
        /\ g.connections[1].in_node = g.connections[2].out_node
        /\ g.connections[1].out_node = g.connections[2].in_node

(* C11: a mutate_node that splits the enabled connection k leaves k        *)
(* disabled with its weight, appends one Hidden node and adds exactly two  *)
(* enabled connections: source -> new node with weight 1.0 and             *)
(* new node -> target with the weight of k                                 *)
C11_SplitShape ==
    [][\A s \in Slots : (MutateNode(s) /\ pool'[s] # pool[s]) =>
          LET g == pool[s]
              h == pool'[s]
              n == Len(g.connections)
              m == Len(g.nodes)
          IN  /\ Len(h.nodes) = m + 1
              /\ SubSeq(h.nodes, 1, m) = g.nodes
              /\ h.nodes[m + 1].ntype = "Hidden"
              /\ Len(h.connections) = n + 2
              /\ \E k \in DOMAIN g.connections :
                    /\ g.connections[k].enabled
                    /\ \A i \in DOMAIN g.connections :
                          h.connections[i] =
                             IF i = k THEN [g.connections[k] EXCEPT !.enabled = FALSE]
                                      ELSE g.connections[i]
                    /\ \E p \in {<<n + 1, n + 2>>, <<n + 2, n + 1>>} :
                          LET c1 == h.connections[p[1]]
                              c2 == h.connections[p[2]]
                          IN  /\ c1.enabled /\ c2.enabled
                              /\ c1.in_node = g.connections[k].in_node
                              /\ c1.out_node = h.nodes[m + 1].idx
                              /\ c1.weight = 1
                              /\ c2.in_node = h.nodes[m + 1].idx
                              /\ c2.out_node = g.connections[k].out_node
                              /\ c2.weight = g.connections[k].weight]_vars

(* a genome holds a split connection whose weight is not 1.0 *)
C11_Witness ==
    \E g \in LiveGenomes :
        /\ Len(g.connections) = 3
        /\ \E i \in DOMAIN g.nodes : g.nodes[i].ntype = "Hidden"
        /\ ~g.connections[1].enabled
        /\ g.connections[1].weight # 1
        /\ g.connections[2].weight = 1
        /\ g.connections[3].weight = g.connections[1].weight

InputCount(g)  == Cardinality({i \in DOMAIN g.nodes : g.nodes[i].ntype = "Input"})
OutputCount(g) == Cardinality({i \in DOMAIN g.nodes : g.nodes[i].ntype = "Output"})
HiddenCount(g) == Cardinality({i \in DOMAIN g.nodes : g.nodes[i].ntype = "Hidden"})

(* C12: Model(input_size, output_size) yields input_size Input nodes,      *)
(* output_size Output nodes, no Hidden node and at most                    *)
(* input_size * output_size connections                                    *)
C12_BootstrapShape ==
    [][\A s \in Slots, i, o \in 1 .. MaxSize :
          \/ /\ InputCount(pool'[s]) = i
             /\ OutputCount(pool'[s]) = o
             /\ HiddenCount(pool'[s]) = 0
             /\ Len(pool'[s].nodes) = i + o
             /\ Len(pool'[s].connections) <= i * o
          \/ ~(/\ count' = CounterReset /\ cross' = NoCross /\ skipped' = "none"
               /\ \A t \in Slots \ {s} : pool'[t] = pool[t]
               /\ Bootstrap(s, i, o))]_vars

(* a bootstrap genome is alive *)
C12_Witness ==
    \E g \in LiveGenomes :
        /\ InputCount(g) >= 1
        /\ OutputCount(g) >= 1
        /\ HiddenCount(g) = 0

(* C14: a crossover of two parents with the same numbers of Input and of   *)
(* Output nodes returns a child with these numbers                         *)
C14_ShapeKept ==
    (/\ cross # NoCross
     /\ InputCount(cross.a) = InputCount(cross.b)
     /\ OutputCount(cross.a) = OutputCount(cross.b))
    => /\ InputCount(Child) = InputCount(cross.a)
       /\ OutputCount(Child) = OutputCount(cross.a)

(* C17: once a model was built, no Model construction sets the counter     *)
(* back again                                                              *)
C17_ResetOnlyOnce ==
    [][\A s \in Slots, i, o \in 1 .. MaxSize :
          (Bootstrap(s, i, o) /\ count' # count) => \A t \in Slots : ~Live(t)]_vars

(* any of the five mutation operators on the genome of slot s *)
Mutation(s) ==
    \/ MutateWeight(s)
    \/ MutateLink(s)
    \/ MutateNode(s)
    \/ MutateToggle(s)
    \/ MutateBias(s)

(* C19: a mutation never shortens the node list or the connection list,    *)
(* every node keeps its id and kind and every connection its id, source    *)
(* and target                                                              *)
C19_NothingRemovedOrRewired ==
    [][\A s \in Slots :
          LET g == pool[s]
              h == pool'[s]
          IN  \/ /\ Len(h.nodes) >= Len(g.nodes)
                 /\ Len(h.connections) >= Len(g.connections)
                 /\ \A i \in DOMAIN g.nodes :
                       /\ h.nodes[i].idx = g.nodes[i].idx
                       /\ h.nodes[i].ntype = g.nodes[i].ntype
                 /\ \A i \in DOMAIN g.connections :
                       /\ h.connections[i].idx = g.connections[i].idx
                       /\ h.connections[i].in_node = g.connections[i].in_node
                       /\ h.connections[i].out_node = g.connections[i].out_node
              \/ ~(cross' = NoCross /\ Mutation(s))]_vars

(* a genome went through a split: its first connection is still there,     *)
(* disabled, next to the two enabled ones of the new node                  *)
C19_Witness ==
    \E g \in LiveGenomes :
        /\ HiddenCount(g) = 1
        /\ Len(g.connections) = 3
        /\ ~g.connections[1].enabled
        /\ g.connections[2].enabled /\ g.connections[3].enabled
        /\ g.connections[2].in_node = g.connections[1].in_node
        /\ g.connections[3].out_node = g.connections[1].out_node

(* C20: a mutate_node on a genome with an enabled connection disables an   *)
(* enabled connection and appends a Hidden node                            *)
C20_AlwaysSplits ==
    [][\A s \in Slots :
          (MutateNode(s) /\ \E i \in DOMAIN pool[s].connections :
                               pool[s].connections[i].enabled) =>
             /\ Len(pool'[s].nodes) = Len(pool[s].nodes) + 1
             /\ pool'[s].nodes[Len(pool'[s].nodes)].ntype = "Hidden"
             /\ \E k \in DOMAIN pool[s].connections :
                   /\ pool[s].connections[k].enabled
                   /\ ~pool'[s].connections[k].enabled]_vars

(* ---------------------- properties of the calls on net ------------------ *)
Activated == result.op = "activate" /\ result.status = "ok"

PositionsOf(g, t) == {p \in DOMAIN g.nodes : g.nodes[p].ntype = t}

(* the number of nodes of kind t whose id is smaller than that of the node at p *)
RankOf(g, t, p) ==
    Cardinality({q \in PositionsOf(g, t) : g.nodes[q].idx < g.nodes[p].idx})

(* C13: activate returns one entry per Output node, and its k-th entry is  *)
(* the value of the Output node with the k-th smallest id, whatever the    *)
(* order of the nodes in the node list.                                    *)
C13_OutputOrdering ==
    Activated =>
        /\ Len(result.value) = OutputCount(net)
        /\ \E f \in [DOMAIN result.value -> PositionsOf(net, "Output")] :
              /\ Injective(f)
              /\ \A k \in DOMAIN f :
                    /\ result.value[k] = net.nodes[f[k]].value
                    /\ k > 1 => net.nodes[f[k - 1]].idx <= net.nodes[f[k]].idx

(* two Output nodes listed against the order of their ids returned different values *)
C13_Witness ==
    /\ Activated
    /\ \E p, q \in PositionsOf(net, "Output") :
          /\ p < q
          /\ net.nodes[p].idx > net.nodes[q].idx
          /\ net.nodes[p].value # net.nodes[q].value

(* C15: two calls of activate with the same input vector return the same   *)
(* output vector, whatever activations were performed in between: a call   *)
(* with the inputs of the first call returns what the first call returned. *)
C15_Deterministic ==
    (Activated /\ first.op = "activate" /\ result.inputs = first.inputs)
        => result.value = first.value

(* C16: genome.copy() returns a genome with the same nodes and connections *)
(* as the original.                                                        *)
C16_CopyReturnsEqualGenome ==
    result.op = "copy" =>
        /\ result.status = "ok"
        /\ Len(result.value) = 1
        /\ result.value[1].nodes = net.nodes
        /\ result.value[1].connections = net.connections

(* C18: every Input node beyond the length of the input vector has value 0 *)
(* in the activation, after any earlier activations.                       *)
C18_UnfedInputsAreZero ==
    Activated =>
        \A p \in PositionsOf(net, "Input") :
            RankOf(net, "Input", p) >= Len(result.inputs) => net.nodes[p].value = 0

(* -------------------------- skipped mutations --------------------------- *)
(* every pair mutate_link can choose in g is the pair of a connection of g *)
AllPairsLinked(g) ==
    \A in_node, out_node \in NodeIds(g) :
        in_node # out_node =>
            \E i \in DOMAIN g.connections :
                /\ g.connections[i].in_node = in_node
                /\ g.connections[i].out_node = out_node

(* C21: mutate_link on a genome with fewer than 2 nodes or with every pair *)
(* it can choose already connected, and mutate_node and mutate_toggle on a *)
(* genome with no connection, leave every genome and the counter as they   *)
(* were.                                                                   *)
C21_SkipsChangeNothing ==
    [][\A s \in Slots :
          \/ pool' = pool /\ count' = count
          \/ ~(\/ /\ Len(pool[s].nodes) < 2 \/ AllPairsLinked(pool[s])
                  /\ MutateLink(s)
               \/ /\ pool[s].connections = <<>>
                  /\ MutateNode(s) \/ MutateToggle(s))]_vars

(* a link, node or toggle mutation just returned on a genome of one node *)
C21_Witness ==
    /\ skipped \in Slots
    /\ Len(pool[skipped].nodes) < 2

(* mutate_link just returned on a genome with connections: every pair was taken *)
C21_WitnessPairExists ==
    /\ skipped \in Slots
    /\ pool[skipped].connections # <<>>
    /\ AllPairsLinked(pool[skipped])
    /\ \A i \in DOMAIN pool[skipped].connections : pool[skipped].connections[i].enabled

(* ------------------- dangling references in activate -------------------- *)
(* a connection of g names an id that no node of g has *)
Dangling(g) ==
    \E i \in DOMAIN g.connections :
        \/ ~HasNode(g.nodes, g.connections[i].in_node)
        \/ ~HasNode(g.nodes, g.connections[i].out_node)

(* C22: activate on a genome holding a connection, enabled or disabled,    *)
(* whose source or target id is the id of no node ends in an error and     *)
(* returns no output vector.                                               *)
C22_DanglingRaises ==
    (result.op = "activate" /\ Dangling(net)) =>
        /\ result.status = "StopIteration"
        /\ result.value = <<>>

(* activate raised on a genome whose only dangling connection is disabled *)
C22_Witness ==
    /\ result.op = "activate"
    /\ result.status = "StopIteration"
    /\ Dangling(net)
    /\ \A i \in DOMAIN net.connections : ~net.connections[i].enabled

(* ------------------------- disabled connections ------------------------- *)
(* the genomes that differ from g at most in the weights of disabled connections *)
DisabledVariants(g) ==
    {[g EXCEPT !.connections = [i \in DOMAIN @ |-> [@[i] EXCEPT !.weight = nw[i]]]] :
        nw \in {f \in [DOMAIN g.connections -> LowW .. HighW] :
                  \A i \in DOMAIN f :
                     g.connections[i].enabled => f[i] = g.connections[i].weight}}

(* C23: a disabled connection adds nothing in any pass: an activation      *)
(* leaves the same node values and returns the same vector on every genome *)
(* that differs only in the weights of disabled connections.               *)
C23_DisabledAddsNothing ==
    [][\/ ~(result'.op = "activate" /\ Activate(result'.inputs))
       \/ \A v \in DisabledVariants(net) :
             LET r == ActivateRun(v, result'.inputs)
             IN  /\ r.value = result'.value
                 /\ r.status = result'.status
                 /\ r.genome.nodes = net'.nodes]_vars

(* an activation ran with a disabled connection from a node of value other *)
(* than 0 to a node that stayed at 0                                       *)
C23_Witness ==
    /\ Activated
    /\ \E i \in DOMAIN net.connections :
          LET c == net.connections[i]
          IN  /\ ~c.enabled
              /\ HasNode(net.nodes, c.in_node) /\ HasNode(net.nodes, c.out_node)
              /\ net.nodes[NodeAt(net.nodes, c.in_node)].value # 0
              /\ net.nodes[NodeAt(net.nodes, c.out_node)].value = 0

(* ----------------------------- bias mutation ---------------------------- *)
(* C24: mutate_bias changes no node id or kind and no connection, only the *)
(* stored value of at most one Output node, and an activate called next    *)
(* returns what it would have returned without the call and leaves the     *)
(* genome as it would have left it.                                        *)
C24_BiasInert ==
    [][\/ ~(result'.op = "mutate_bias" /\ BiasNet)
       \/ /\ net'.connections = net.connections
          /\ DOMAIN net'.nodes = DOMAIN net.nodes
          /\ \A i \in DOMAIN net.nodes :
                /\ net'.nodes[i].idx = net.nodes[i].idx
                /\ net'.nodes[i].ntype = net.nodes[i].ntype
                /\ net'.nodes[i].value # net.nodes[i].value
                      => net.nodes[i].ntype = "Output"
          /\ Cardinality({i \in DOMAIN net.nodes :
                            net'.nodes[i].value # net.nodes[i].value}) <= 1
          /\ \A m \in 0 .. MaxInLen : \A inputs \in ActInputs(m) :
                ActivateRun(net', inputs) = ActivateRun(net, inputs)]_vars

(* mutate_bias moved the value of an Output node of a genome with a        *)
(* connection away from the 0.0 of its construction                        *)
C24_Witness ==
    /\ result.op = "mutate_bias"
    /\ first = NoResult
    /\ net.connections # <<>>
    /\ \E i \in DOMAIN net.nodes :
          net.nodes[i].ntype = "Output" /\ net.nodes[i].value # 0

(* ------------------------- parents of a crossover ----------------------- *)
(* C25: a crossover leaves every genome but the one its result is bound to *)
(* as it was, both parents among them, and a mutation of a genome, the     *)
(* child of a crossover among them, leaves every other genome as it was:   *)
(* nodes, connections, weights, enabled flags and fitness.                 *)
C25_ParentsUntouched ==
    [][\A s \in Slots :
          \/ \A t \in Slots \ {s} : pool'[t] = pool[t]
          \/ ~(\/ /\ cross' # NoCross
                  /\ cross'.dst = s
                  /\ \E a, b \in Slots : Crossover(a, b, s)
               \/ /\ cross' = NoCross
                  /\ Mutation(s))]_vars

(* a crossover has just bound its child, which has a connection, to one    *)
(* slot while the other still holds a parent the connection came from      *)
C25_Witness ==
    /\ cross # NoCross
    /\ Child.connections # <<>>
    /\ \E t \in Slots \ {cross.dst} :
          /\ pool[t] \in {cross.a, cross.b}
          /\ pool[t].connections # <<>>
          /\ \E i \in DOMAIN Child.connections, j \in DOMAIN pool[t].connections :
                Child.connections[i].idx = pool[t].connections[j].idx

====
